---- MODULE Spec2Model ----
(***************************************************************************)
(* State-machine model of the Spotify lyrics relay: the actix handler of   *)
(* src/src/main.rs (one std::sync::Mutex around the Spotify client) and    *)
(* the token cache / token acquisition / lyrics retry logic of             *)
(* src/src/spotify.rs.  Every `.await` on an upstream call is a yield      *)
(* point: the request is sent, the upstream answers (an environment        *)
(* action that puts the answer in reply[r]), and the continuation of the   *)
(* handler consumes the answer.  The pure functions of the client           *)
(* (extract_track_id, generate_totp, the server-time parameters,           *)
(* format_ms) are operators; SpecPure applies each to inputs drawn from    *)
(* bounded sets.                                                           *)
(***************************************************************************)
EXTENDS Integers, FiniteSets, Sequences, TLC

\* ------------------------------------------------------------------ bounds
NumRequests == 2        \* request slots that can be in flight at once
NumWorkers  == 2        \* actix worker threads
NumTokens   == 2        \* distinct bearer tokens upstream can hand out
NumClients  == 1        \* distinct client ids upstream can hand out
MaxTime     == 1        \* wall clock (ms) runs over 0..MaxTime
MaxUrlLen   == 8        \* pieces of text in a url given to extract_track_id
MaxServerTime == 150    \* serverTime values (s) given to the parameter builder

\* ------------------------------------------------- absent Option<..> values
NoToken  == 0           \* CacheData.access_token = None
NoClient == 0           \* CacheData.client_id = None
NoExp    == -1          \* CacheData.access_token_expiration_timestamp_ms = None
NoTime   == -1          \* server_time_data["serverTime"].as_u64() = None

MaxAttempts == 2        \* for attempt in 1..=2
Unauthorized == 401

Requests == 1..NumRequests
Workers  == 1..NumWorkers
Tokens   == 1..NumTokens
Clients  == 1..NumClients
Times    == 0..MaxTime
Statuses == {200, Unauthorized, 500}

VARIABLES
    cache,      \* the token cache file: absent, unparsable, or a CacheData record
    now,        \* SystemTime::now() in milliseconds
    lock,       \* AppState.spotify mutex: 0 when free, else the holding request
    pc,         \* per request: position of the handler future
    worker,     \* per request: the worker thread that runs its handler
    input,      \* per request: the query the handler's parameter checks read
    format,     \* per request: the local `format` of the handler
    attempt,    \* per request: loop variable of get_lyrics
    checked,    \* per request: current_time_ms of the attempt's check_tokens_expire
    token,      \* per request: the local `token` of get_lyrics (bearer sent)
    reply,      \* per request: upstream answer not yet consumed
    resp,       \* per request: HTTP status answered to the client (0: none yet)
    out,        \* per request: the JSON body answered to the client
    err,        \* per request: the SpotifyException the call ended with
    calls,      \* per request: upstream calls sent by the current get_lyrics call
    acq,        \* per request: token response saved by get_token in this attempt
    got401,     \* per request: attempt 1 of the current call was answered 401
    probe       \* a pure function of the client applied to an input: its result

vars == <<cache, now, lock, pc, worker, input, format, attempt, checked, token,
          reply, resp, out, err, calls, acq, got401, probe>>

\* ------------------------------------------------------------ cache file
NoCacheFile  == [kind |-> "absent",  access_token |-> NoToken,
                 client_id |-> NoClient, exp |-> NoExp]
CorruptCache == [kind |-> "corrupt", access_token |-> NoToken,
                 client_id |-> NoClient, exp |-> NoExp]
CacheData(t, c, e) == [kind |-> "ok", access_token |-> t, client_id |-> c, exp |-> e]

\* load_cache_file: Err(JsonError) on unparsable content, the empty record when
\* the file does not exist, the parsed record otherwise.
LoadFails(c) == c.kind = "corrupt"
load_cache_file(c) == IF c.kind = "absent" THEN CacheData(NoToken, NoClient, NoExp) ELSE c

\* ------------------------------------------------------------ exceptions
NoErr == [kind |-> "none", msg |-> "", status |-> 0]
ApiError(m, s)  == [kind |-> "ApiError", msg |-> m, status |-> s]
RequestError    == [kind |-> "RequestError", msg |-> "", status |-> 0]
JsonError       == [kind |-> "JsonError", msg |-> "", status |-> 0]
IoError         == [kind |-> "IoError", msg |-> "", status |-> 0]
Generic(m)      == [kind |-> "Generic", msg |-> m, status |-> 0]

\* ------------------------------------------------------ upstream answers
NoReply == [kind |-> "none", status |-> 0, body |-> "", serverTime |-> NoTime,
            isAnonymous |-> FALSE, accessToken |-> NoToken, exp |-> NoExp,
            clientId |-> NoClient, lyrics |-> FALSE]
TransportFailure == [NoReply EXCEPT !.kind = "transport"]
Http(s, b) == [NoReply EXCEPT !.kind = "http", !.status = s, !.body = b]

\* StatusCode::is_success
IsSuccess(s) == s >= 200 /\ s <= 299

ServerTimeReplies ==
    {TransportFailure}
    \cup {Http(s, "") : s \in Statuses \ {200}}
    \cup {Http(200, "badjson")}
    \cup {[Http(200, "json") EXCEPT !.serverTime = t] : t \in {NoTime, 0}}

TokenReplies ==
    {TransportFailure}
    \cup {Http(s, "") : s \in Statuses \ {200}}
    \cup {Http(200, "badjson")}
    \cup {[Http(200, "json") EXCEPT !.isAnonymous = TRUE]}
    \cup {[Http(200, "json") EXCEPT !.accessToken = t, !.exp = e, !.clientId = c] :
            t \in Tokens \cup {NoToken}, e \in Times \cup {NoExp},
            c \in Clients \cup {NoClient}}

LyricsReplies ==
    {TransportFailure}
    \cup {Http(s, "") : s \in Statuses \ {200}}
    \cup {Http(200, b) : b \in {"unreadable", "badjson"}}
    \cup {[Http(200, "json") EXCEPT !.lyrics = l] : l \in BOOLEAN}

NoCalls == [time |-> 0, token |-> 0, lyrics |-> 0]
NoAcq   == [done |-> FALSE, access_token |-> NoToken, exp |-> NoExp,
            client_id |-> NoClient]

\* ------------------------------------------------------------ url text
\* A url is a sequence of pieces of text: the separators "/" and "?", the
\* word "track", and "x" for any other non-empty run of characters without
\* a separator.  Two adjacent runs make one longer run, never the word.
UrlPieces == {"/", "?", "track", "x"}

\* Option<String>
None    == [some |-> FALSE, id |-> <<>>]
Some(s) == [some |-> TRUE, id |-> s]

HasSep(s, sep) == \E i \in 1..Len(s) : s[i] = sep
FirstSep(s, sep) == CHOOSE i \in 1..Len(s) : s[i] = sep /\ \A j \in 1..(i - 1) : s[j] # sep

\* str::split(sep).collect(): the text between the separators, empty runs kept.
RECURSIVE Split(_, _)
Split(s, sep) ==
    IF ~HasSep(s, sep) THEN <<s>>
    ELSE <<SubSeq(s, 1, FirstSep(s, sep) - 1)>>
         \o Split(SubSeq(s, FirstSep(s, sep) + 1, Len(s)), sep)

\* extract_track_id; parts[3] and parts[4] of the code are parts[4] and
\* parts[5] here, sequences being numbered from 1.
extract_track_id(url) ==
    LET parts == Split(url, "/") IN
    IF Len(parts) > 4 /\ parts[4] = <<"track">>
    THEN Some(Split(parts[5], "?")[1])
    ELSE None

\* ------------------------------------------------ inbound query parameters
\* https://x/track/x?x, https://x/x/x and https://x/track/
TrackUrl   == <<"x", "/", "/", "x", "/", "track", "/", "x", "?", "x">>
AlbumUrl   == <<"x", "/", "/", "x", "/", "x", "/", "x">>
EmptyIdUrl == <<"x", "/", "/", "x", "/", "track", "/">>
SampleUrls == {TrackUrl, AlbumUrl, EmptyIdUrl}

\* web::Query<HashMap<String, String>>: trackid present or not, url present
\* (with its text) or not, format absent ("none") or its value.
Queries ==
    [trackid : BOOLEAN, hasUrl : {TRUE}, url : SampleUrls,
     format : {"none", "id3", "lrc", "xml"}]
    \cup [trackid : BOOLEAN, hasUrl : {FALSE}, url : {<<>>},
          format : {"none", "id3", "lrc", "xml"}]
NoQuery == [trackid |-> FALSE, hasUrl |-> FALSE, url |-> <<>>, format |-> "unset"]

\* let format = query.get("format").map(..).unwrap_or("id3")
EffectiveFormat(q) == IF q.format = "none" THEN "id3" ELSE q.format

\* Variant of ParamError that checks the format before the track identifier.
ParamError_FormatFirst(q) ==
    IF EffectiveFormat(q) # "id3" /\ EffectiveFormat(q) # "lrc"
    THEN "format parameter must be either 'id3' or 'lrc'!"
    ELSE IF ~q.trackid /\ q.hasUrl /\ ~extract_track_id(q.url).some
    THEN "invalid url parameter!"
    ELSE IF ~q.trackid /\ ~q.hasUrl
    THEN "url or trackid parameter is required!"
    ELSE ""

\* The parameter checks of the handler, in the order of the code: the message
\* of the 400 response, or "" when the request goes on.
ParamError(q) ==
    IF ~q.trackid /\ q.hasUrl /\ ~extract_track_id(q.url).some
    THEN "invalid url parameter!"
    ELSE IF ~q.trackid /\ ~q.hasUrl
    THEN "url or trackid parameter is required!"
    ELSE IF EffectiveFormat(q) # "id3" /\ EffectiveFormat(q) # "lrc"
    THEN "format parameter must be either 'id3' or 'lrc'!"
    ELSE ""

\* The status of the parameter checks: 400, or 0 when the request goes on.
ValidateQuery(q) == IF ParamError(q) # "" THEN 400 ELSE 0

\* The JSON body of a response: the error message, or the kind of lines.
NoBody == [message |-> "", lines |-> ""]
ErrorBody(m) == [message |-> m, lines |-> ""]

\* ------------------------------------------------------- pure helpers
\* Variant of need_access_token that acquires a token on every check.
need_access_token_Always(c, t) == TRUE

\* Variant of need_access_token that also refreshes a record expiring right now.
need_access_token_le(c, t) ==
    \/ c.kind = "absent"
    \/ c.access_token = NoToken
    \/ c.exp = NoExp
    \/ c.exp <= t

\* need_access_token of check_tokens_expire, on the loaded record.
need_access_token(c, t) ==
    \/ c.kind = "absent"
    \/ c.access_token = NoToken
    \/ c.exp = NoExp
    \/ c.exp < t

\* Variant of MergeToken that takes the client id of the response only.
MergeToken_ResponseOnly(old, rep) == CacheData(rep.accessToken, rep.clientId, rep.exp)

\* The record get_token builds from the loaded record and the token response.
MergeToken(old, rep) ==
    CacheData(rep.accessToken,
              IF rep.clientId # NoClient THEN rep.clientId ELSE old.client_id,
              rep.exp)

\* Variant of TokenReplyError without the isAnonymous check.
TokenReplyError_NoAnonCheck(rep) ==
    IF rep.kind = "transport" THEN RequestError
    ELSE IF ~IsSuccess(rep.status) THEN ApiError("Token request failed", rep.status)
    ELSE IF rep.body # "json" THEN RequestError
    ELSE NoErr

\* What get_token does with a token-exchange answer, before touching the cache:
\* the error it returns, or NoErr when it goes on to load, merge and save.
TokenReplyError(rep) ==
    IF rep.kind = "transport" THEN RequestError
    ELSE IF ~IsSuccess(rep.status) THEN ApiError("Token request failed", rep.status)
    ELSE IF rep.body # "json" THEN RequestError
    ELSE IF rep.isAnonymous THEN Generic("The SP_DC set seems to be invalid")
    ELSE NoErr

\* Variant of ServerTimeError that does not look for the serverTime field.
ServerTimeError_NoTimeCheck(rep) ==
    IF rep.kind = "transport" THEN RequestError
    ELSE IF ~IsSuccess(rep.status) THEN ApiError("Failed to fetch server time", rep.status)
    ELSE IF rep.body # "json" THEN RequestError
    ELSE NoErr

\* What get_server_time_params does with the server-time answer.
ServerTimeError(rep) ==
    IF rep.kind = "transport" THEN RequestError
    ELSE IF ~IsSuccess(rep.status) THEN ApiError("Failed to fetch server time", rep.status)
    ELSE IF rep.body # "json" THEN RequestError
    ELSE IF rep.serverTime = NoTime THEN Generic("Invalid server time response")
    ELSE NoErr

\* Variant of RetryDecision that retries on every 401, whatever the attempt.
RetryDecision_Every401(s, a) ==
    IF IsSuccess(s) THEN "ok"
    ELSE IF s = Unauthorized THEN "retry"
    ELSE "error"

\* Variant of RetryDecision that retries attempt 1 on every non-success status.
RetryDecision_AnyStatus(s, a) ==
    IF IsSuccess(s) THEN "ok"
    ELSE IF a = 1
         THEN (IF a + 1 <= MaxAttempts THEN "retry" ELSE "exhausted")
         ELSE "error"

\* The branch get_lyrics takes on a lyrics response with status s on attempt a:
\* return the body, clear the cache and go round the loop again, return the
\* status error, or fall out of the loop.
RetryDecision(s, a) ==
    IF IsSuccess(s) THEN "ok"
    ELSE IF s = Unauthorized /\ a = 1
         THEN (IF a + 1 <= MaxAttempts THEN "retry" ELSE "exhausted")
         ELSE "error"

\* get_formatted_lyrics on the text get_lyrics returned.
FormatError(rep) ==
    IF rep.body = "unreadable" THEN RequestError
    ELSE IF rep.body # "json" THEN JsonError
    ELSE IF ~rep.lyrics THEN Generic("lyrics for this track is not available on spotify!")
    ELSE NoErr

\* The handler's translation of the outcome into an HTTP status.
HandlerStatus(e) ==
    IF e = NoErr THEN 200
    ELSE IF e = Generic("lyrics for this track is not available on spotify!") THEN 404
    ELSE 500

\* The body the handler answers with: the formatted lines of the requested
\* kind, the no-lyrics message, or the message of the catch-all arm.
HandlerBody(e, f) ==
    IF e = NoErr THEN [message |-> "", lines |-> f]
    ELSE IF e = Generic("lyrics for this track is not available on spotify!")
    THEN ErrorBody("lyrics for this track is not available on spotify!")
    ELSE ErrorBody("Failed to fetch lyrics")

\* No pure function is being looked at.
NoProbe == [fn |-> "none"]

\* The state once main has built AppState: no request, any cache file left
\* by an earlier run.
NoRequest ==
    /\ now = 0
    /\ lock = 0
    /\ pc = [r \in Requests |-> "idle"]
    /\ worker = [r \in Requests |-> 0]
    /\ input = [r \in Requests |-> NoQuery]
    /\ format = [r \in Requests |-> ""]
    /\ attempt = [r \in Requests |-> 0]
    /\ checked = [r \in Requests |-> NoTime]
    /\ token = [r \in Requests |-> NoToken]
    /\ reply = [r \in Requests |-> NoReply]
    /\ resp = [r \in Requests |-> 0]
    /\ out = [r \in Requests |-> NoBody]
    /\ err = [r \in Requests |-> NoErr]
    /\ calls = [r \in Requests |-> NoCalls]
    /\ acq = [r \in Requests |-> NoAcq]
    /\ got401 = [r \in Requests |-> FALSE]

Init ==
    /\ cache \in {NoCacheFile, CorruptCache}
                 \cup {CacheData(t, c, e) : t \in Tokens, c \in Clients \cup {NoClient},
                                            e \in Times}
    /\ NoRequest
    /\ probe = NoProbe

\* ------------------------------------------------------- worker threads
\* A worker is one thread that polls its handler futures one at a time.  It
\* is taken while a future of it waits in std::sync::Mutex::lock, which
\* blocks the thread, and while one runs between two awaits: from lock() or
\* from the 401 branch to the first await of check_tokens_expire or get_lyrics.
OnThread(r2, w) == worker[r2] = w /\ pc[r2] \in {"blocked", "check"}
WorkerFree(w) == \A r2 \in Requests : ~OnThread(r2, w)
ThreadFree(r) == \A r2 \in Requests \ {r} : ~OnThread(r2, worker[r])

\* Variant of CanLock that never waits for the holder.
CanLock_NoWait == TRUE

\* data.spotify.lock(): the mutex can be taken.
CanLock == lock = 0

\* ------------------------------------------------------- action fragments
\* The handler returns: the MutexGuard is dropped and the client is answered.
Finish(r, e) ==
    /\ pc' = [pc EXCEPT ![r] = "done"]
    /\ lock' = 0
    /\ err' = [err EXCEPT ![r] = e]
    /\ resp' = [resp EXCEPT ![r] = HandlerStatus(e)]
    /\ out' = [out EXCEPT ![r] = HandlerBody(e, format[r])]
    /\ reply' = [reply EXCEPT ![r] = NoReply]
    /\ token' = [token EXCEPT ![r] = NoToken]
    /\ calls' = [calls EXCEPT ![r] = NoCalls]
    /\ acq' = [acq EXCEPT ![r] = NoAcq]
    /\ got401' = [got401 EXCEPT ![r] = FALSE]
    /\ attempt' = [attempt EXCEPT ![r] = 0]
    /\ checked' = [checked EXCEPT ![r] = NoTime]
    /\ input' = [input EXCEPT ![r] = NoQuery]
    /\ format' = [format EXCEPT ![r] = ""]
    /\ worker' = [worker EXCEPT ![r] = 0]
    /\ UNCHANGED <<now, probe>>

\* get_lyrics after check_tokens_expire returned Ok: load the record `c`, take
\* its token and send the lyrics request.  t is the time the check read.
SendLyrics(r, c, a, t) ==
    IF LoadFails(c) THEN Finish(r, JsonError)
    ELSE IF load_cache_file(c).access_token = NoToken
    THEN Finish(r, Generic("Access token not found"))
    ELSE /\ token' = [token EXCEPT ![r] = load_cache_file(c).access_token]
         /\ calls' = [calls EXCEPT ![r].lyrics = @ + 1]
         /\ pc' = [pc EXCEPT ![r] = "wait_lyrics"]
         /\ reply' = [reply EXCEPT ![r] = NoReply]
         /\ acq' = [acq EXCEPT ![r] = a]
         /\ input' = [input EXCEPT ![r] = NoQuery]
         /\ checked' = [checked EXCEPT ![r] = t]
         /\ UNCHANGED <<now, probe, lock, worker, format, attempt, resp,
                    out, err, got401>>

\* The handler once it holds the mutex: it reads the query q; a failed
\* parameter check answers 400 and drops the guard, otherwise the handler
\* calls get_formatted_lyrics with the track identifier and the format.
AfterLock(r, w, q) ==
    /\ input' = [input EXCEPT ![r] = q]
    /\ IF ParamError(q) # ""
       THEN /\ pc' = [pc EXCEPT ![r] = "done"]
            /\ resp' = [resp EXCEPT ![r] = ValidateQuery(q)]
            /\ out' = [out EXCEPT ![r] = ErrorBody(ParamError(q))]
            /\ lock' = 0
            /\ worker' = [worker EXCEPT ![r] = 0]
            /\ UNCHANGED <<attempt, checked, format>>
       ELSE /\ pc' = [pc EXCEPT ![r] = "check"]
            /\ attempt' = [attempt EXCEPT ![r] = 1]
            /\ UNCHANGED checked
            /\ format' = [format EXCEPT ![r] = EffectiveFormat(q)]
            /\ lock' = r
            /\ worker' = [worker EXCEPT ![r] = w]
            /\ UNCHANGED <<resp, out>>
    /\ UNCHANGED <<cache, now, probe, token, reply, err, calls, acq, got401>>

\* ------------------------------------------------------------- actions
\* A request arrives on worker w and calls data.spotify.lock(); its query is
\* read once the lock is held.
HandlerEnter(r) ==
    /\ pc[r] = "idle"
    /\ \E w \in Workers :
         /\ WorkerFree(w)
         /\ IF CanLock
            THEN \E q \in Queries : AfterLock(r, w, q)
            ELSE /\ pc' = [pc EXCEPT ![r] = "blocked"]
                 /\ worker' = [worker EXCEPT ![r] = w]
                 /\ UNCHANGED <<cache, now, probe, lock, input, format, attempt, checked,
                    token, reply, resp, out, err, calls, acq, got401>>

\* The blocked lock() call returns once the mutex is free.
LockGranted(r) ==
    /\ pc[r] = "blocked"
    /\ CanLock
    /\ \E q \in Queries : AfterLock(r, worker[r], q)

\* check_tokens_expire up to its first await, and on a fresh record the
\* lyrics request of get_lyrics.  get_token's check of an empty sp_dc never
\* fires here: main exits before it serves when the credential is empty.
CheckTokensExpire(r) ==
    /\ pc[r] = "check"
    /\ ThreadFree(r)
    /\ IF LoadFails(cache)
       THEN Finish(r, JsonError)
       ELSE IF need_access_token(cache, now)
       THEN /\ pc' = [pc EXCEPT ![r] = "wait_time"]
            /\ calls' = [calls EXCEPT ![r].time = @ + 1]
            /\ input' = [input EXCEPT ![r] = NoQuery]
            /\ checked' = [checked EXCEPT ![r] = now]
            /\ UNCHANGED <<now, probe, lock, worker, format, attempt, token,
                    reply, resp, out, err, acq, got401>>
       ELSE SendLyrics(r, cache, acq[r], now)
    /\ UNCHANGED cache

\* The upstream answers the server-time request.
ServerTimeAnswer(r) ==
    /\ pc[r] = "wait_time"
    /\ reply[r] = NoReply
    /\ \E rep \in ServerTimeReplies : reply' = [reply EXCEPT ![r] = rep]
    /\ UNCHANGED <<cache, now, probe, lock, pc, worker, input, format, attempt,
                    checked, token, resp, out, err, calls, acq, got401>>

\* get_server_time_params resumes; on success get_token sends the token exchange.
OnServerTime(r) ==
    /\ pc[r] = "wait_time"
    /\ reply[r] # NoReply
    /\ ThreadFree(r)
    /\ IF ServerTimeError(reply[r]) # NoErr
       THEN Finish(r, ServerTimeError(reply[r]))
       ELSE /\ pc' = [pc EXCEPT ![r] = "wait_token"]
            /\ calls' = [calls EXCEPT ![r].token = @ + 1]
            /\ reply' = [reply EXCEPT ![r] = NoReply]
            /\ UNCHANGED <<now, probe, lock, worker, input, format, attempt, checked,
                    token, resp, out, err, acq, got401>>
    /\ UNCHANGED cache

\* The upstream answers the token exchange.
TokenAnswer(r) ==
    /\ pc[r] = "wait_token"
    /\ reply[r] = NoReply
    /\ \E rep \in TokenReplies : reply' = [reply EXCEPT ![r] = rep]
    /\ UNCHANGED <<cache, now, probe, lock, pc, worker, input, format, attempt,
                    checked, token, resp, out, err, calls, acq, got401>>

\* get_token resumes: checks the answer, merges it into the loaded record and
\* saves it; then check_tokens_expire returns and get_lyrics sends its request.
OnToken(r) ==
    /\ pc[r] = "wait_token"
    /\ reply[r] # NoReply
    /\ ThreadFree(r)
    /\ IF TokenReplyError(reply[r]) # NoErr
       THEN Finish(r, TokenReplyError(reply[r])) /\ UNCHANGED cache
       ELSE IF LoadFails(cache)
       THEN Finish(r, JsonError) /\ UNCHANGED cache
       ELSE \E saved \in BOOLEAN :
              IF ~saved
              THEN Finish(r, IoError) /\ UNCHANGED cache
              ELSE LET new == MergeToken(load_cache_file(cache), reply[r]) IN
                   /\ cache' = new
                   /\ SendLyrics(r, new, [done |-> TRUE,
                                          access_token |-> reply[r].accessToken,
                                          exp |-> reply[r].exp,
                                          client_id |-> reply[r].clientId],
                                 checked[r])

\* The upstream answers the lyrics request.
LyricsAnswer(r) ==
    /\ pc[r] = "wait_lyrics"
    /\ reply[r] = NoReply
    /\ \E rep \in LyricsReplies : reply' = [reply EXCEPT ![r] = rep]
    /\ UNCHANGED <<cache, now, probe, lock, pc, worker, input, format, attempt,
                    checked, token, resp, out, err, calls, acq, got401>>

\* get_lyrics resumes on the lyrics response; a returned body is formatted by
\* get_formatted_lyrics and the handler answers.
OnLyrics(r) ==
    /\ pc[r] = "wait_lyrics"
    /\ reply[r] # NoReply
    /\ ThreadFree(r)
    /\ IF reply[r].kind = "transport"
       THEN Finish(r, RequestError) /\ UNCHANGED cache
       ELSE LET d == RetryDecision(reply[r].status, attempt[r]) IN
            CASE d = "ok" -> Finish(r, FormatError(reply[r])) /\ UNCHANGED cache
              [] d = "error" ->
                   /\ Finish(r, ApiError("Lyrics request failed", reply[r].status))
                   /\ UNCHANGED cache
              [] d = "exhausted" ->
                   /\ Finish(r, ApiError("Failed to retrieve lyrics after token refresh", 0))
                   /\ UNCHANGED cache
              [] d = "retry" ->
                   /\ \E removed \in BOOLEAN :
                        cache' = IF cache.kind # "absent" /\ removed
                                 THEN NoCacheFile ELSE cache
                   /\ attempt' = [attempt EXCEPT ![r] = @ + 1]
                   /\ checked' = [checked EXCEPT ![r] = NoTime]
                   /\ pc' = [pc EXCEPT ![r] = "check"]
                   /\ got401' = [got401 EXCEPT ![r] = TRUE]
                   /\ reply' = [reply EXCEPT ![r] = NoReply]
                   /\ token' = [token EXCEPT ![r] = NoToken]
                   /\ acq' = [acq EXCEPT ![r] = NoAcq]
                   /\ UNCHANGED <<now, probe, lock, worker, input, format, resp, out, err,
                    calls>>

\* The response has been delivered; the slot takes the next request.
Drop(r) ==
    /\ pc[r] = "done"
    /\ pc' = [pc EXCEPT ![r] = "idle"]
    /\ resp' = [resp EXCEPT ![r] = 0]
    /\ out' = [out EXCEPT ![r] = NoBody]
    /\ err' = [err EXCEPT ![r] = NoErr]
    /\ input' = [input EXCEPT ![r] = NoQuery]
    /\ UNCHANGED <<cache, now, probe, lock, worker, format, attempt, checked,
                    token, reply, calls, acq, got401>>

\* Wall-clock time passes.
Tick ==
    /\ now < MaxTime
    /\ now' = now + 1
    /\ UNCHANGED <<cache, probe, lock, pc, worker, input, format, attempt,
                    checked, token, reply, resp, out, err, calls, acq, got401>>

Next ==
    \/ \E r \in Requests : HandlerEnter(r)
    \/ \E r \in Requests : LockGranted(r)
    \/ \E r \in Requests : CheckTokensExpire(r)
    \/ \E r \in Requests : ServerTimeAnswer(r)
    \/ \E r \in Requests : OnServerTime(r)
    \/ \E r \in Requests : TokenAnswer(r)
    \/ \E r \in Requests : OnToken(r)
    \/ \E r \in Requests : LyricsAnswer(r)
    \/ \E r \in Requests : OnLyrics(r)
    \/ \E r \in Requests : Drop(r)
    \/ Tick

Spec == Init /\ [][Next]_vars

\* The server with a running executor and an upstream that answers: every
\* call sent is answered, every handler future that can be polled is polled,
\* and a thread waiting in lock() gets the mutex if it is free again and again.
Fairness ==
    \A r \in Requests :
        /\ WF_vars(ServerTimeAnswer(r))
        /\ WF_vars(TokenAnswer(r))
        /\ WF_vars(LyricsAnswer(r))
        /\ WF_vars(CheckTokensExpire(r))
        /\ WF_vars(OnServerTime(r))
        /\ WF_vars(OnToken(r))
        /\ WF_vars(OnLyrics(r))
        /\ SF_vars(LockGranted(r))

\* The server started without a cache file.
InitLive ==
    /\ cache = NoCacheFile
    /\ NoRequest
    /\ probe = NoProbe

SpecLive == InitLive /\ [][Next]_vars /\ Fairness

\* One request slot alone: the calls of get_lyrics one after the other.
NextSeq ==
    \/ HandlerEnter(1)
    \/ CheckTokensExpire(1)
    \/ ServerTimeAnswer(1)
    \/ OnServerTime(1)
    \/ TokenAnswer(1)
    \/ OnToken(1)
    \/ LyricsAnswer(1)
    \/ OnLyrics(1)
    \/ Drop(1)
    \/ Tick

SpecSeq == Init /\ [][NextSeq]_vars

\* ------------------------------------------------------ pure functions
\* Decimal text is a sequence of the characters "0" .. "9".
DigitChars == <<"0", "1", "2", "3", "4", "5", "6", "7", "8", "9">>

\* u64::to_string / format!("{}", n)
RECURSIVE to_string(_)
to_string(n) ==
    IF n < 10 THEN <<DigitChars[n + 1]>>
    ELSE to_string(n \div 10) \o <<DigitChars[(n % 10) + 1]>>

\* format!("{:0w}", n): zeros on the left up to the minimum width w.
PadLeft(n, w) ==
    IF Len(to_string(n)) >= w THEN to_string(n)
    ELSE [i \in 1..(w - Len(to_string(n))) |-> "0"] \o to_string(n)

\* The indices of `result` the dynamic truncation reads.
TotpReads(digest) ==
    LET offset == digest[19] % 16 IN {19, offset, offset + 1, offset + 2, offset + 3}

\* The u32 `binary` of generate_totp.  On bytes, & 0xf is % 16, & 0x7f is
\* % 128, << k is * 2^k, and | of values with disjoint bits is +.
TotpBinary(digest) ==
    LET offset == digest[19] % 16 IN
        (digest[offset] % 128) * 16777216
        + digest[offset + 1] * 65536
        + digest[offset + 2] * 256
        + digest[offset + 3]

\* Variant of generate_totp that keeps five decimal digits of the value.
generate_totp_FiveDigits(server_time_seconds, digest) ==
    PadLeft(TotpBinary(digest) % 100000, 6)

\* generate_totp.  `digest` is the HMAC-SHA1 of the counter
\* server_time_seconds / 30 under the fixed secret: 20 bytes, indexed from 0,
\* that the model takes as given instead of computing them.
generate_totp(server_time_seconds, digest) ==
    PadLeft(TotpBinary(digest) % 1000000, 6)

\* Variant of ServerTimeParams that adds 420 to the server time.
ServerTimeParams_Add420(s, digest) ==
    [reason |-> "transport", productType |-> "web_player",
     totp |-> generate_totp(s, digest), totpServer |-> generate_totp(s, digest),
     totpVer |-> "5", sTime |-> to_string(s), cTime |-> to_string(s + 420)]

\* The parameter map get_server_time_params builds from the server time s.
ServerTimeParams(s, digest) ==
    [reason |-> "transport", productType |-> "web_player",
     totp |-> generate_totp(s, digest), totpServer |-> generate_totp(s, digest),
     totpVer |-> "5", sTime |-> to_string(s),
     cTime |-> to_string(s) \o <<"4", "2", "0">>]

\* Variant of format_ms that takes the centiseconds from the whole value.
format_ms_WholeCentis(milliseconds) ==
    LET total_seconds == milliseconds \div 1000
        minutes == total_seconds \div 60
        seconds == total_seconds % 60
        centiseconds == milliseconds \div 10
    IN  PadLeft(minutes, 2) \o <<":">> \o PadLeft(seconds, 2) \o <<".">>
        \o PadLeft(centiseconds, 2)

\* format_ms
format_ms(milliseconds) ==
    LET total_seconds == milliseconds \div 1000
        minutes == total_seconds \div 60
        seconds == total_seconds % 60
        centiseconds == (milliseconds % 1000) \div 10
    IN  PadLeft(minutes, 2) \o <<":">> \o PadLeft(seconds, 2) \o <<".">>
        \o PadLeft(centiseconds, 2)

\* ------------------------------------- the pure functions, one at a time
\* Every url of at most MaxUrlLen pieces.
Urls == UNION {[1..n -> UrlPieces] : n \in 0..MaxUrlLen}

\* Byte values at both ends and around the sign bit of a byte.
ByteSamples == {0, 1, 127, 128, 255}

\* Last bytes of a digest: every low nibble, with a low and a high nibble above.
LastBytes == {16 * h + l : h \in {0, 15}, l \in 0..15}

\* A digest whose last byte is `last` and whose four bytes at the offset the
\* last byte selects are w; every other byte is 255.
Digest(last, w) ==
    [i \in 0..19 |->
        IF i = 19 THEN last
        ELSE IF i >= last % 16 /\ i <= (last % 16) + 3 THEN w[i - (last % 16) + 1]
        ELSE 255]

Digests == {Digest(last, w) : last \in LastBytes, w \in [1..4 -> ByteSamples]}

\* Timestamps mm:ss.xxx with one-, two- and three-digit minutes.
Milliseconds ==
    {m * 60000 + sec * 1000 + x : m \in {0, 1, 9, 10, 59, 60, 99, 100},
                                  sec \in {0, 1, 5, 9, 10, 59}, x \in 0..999}

Probe(f, a) == [fn |-> f, arg |-> a, done |-> FALSE, result |-> <<>>]

\* One function and one input for it; no request is served meanwhile.
InitPure ==
    /\ cache = NoCacheFile
    /\ NoRequest
    /\ \/ probe \in {Probe("extract_track_id", u) : u \in Urls}
       \/ probe \in {Probe("generate_totp", [time |-> t, digest |-> d]) :
                         t \in {0, MaxServerTime}, d \in Digests}
       \/ probe \in {Probe("get_server_time_params", [time |-> t, digest |-> d]) :
                         t \in 0..MaxServerTime,
                         d \in {Digest(last, [i \in 1..4 |-> last]) : last \in {0, 255}}}
       \/ probe \in {Probe("format_ms", ms) : ms \in Milliseconds}

\* The function named f is applied to the input in hand.
Applies(f) == probe.fn = f /\ ~probe.done

Idle == UNCHANGED <<cache, now, lock, pc, worker, input, format, attempt,
                    checked, token, reply, resp, out, err, calls, acq, got401>>

ApplyExtractTrackId ==
    /\ Applies("extract_track_id")
    /\ probe' = [probe EXCEPT !.done = TRUE, !.result = extract_track_id(probe.arg)]
    /\ Idle

ApplyGenerateTotp ==
    /\ Applies("generate_totp")
    /\ probe' = [probe EXCEPT !.done = TRUE,
                   !.result = [code |-> generate_totp(probe.arg.time, probe.arg.digest),
                               reads |-> TotpReads(probe.arg.digest)]]
    /\ Idle

ApplyServerTimeParams ==
    /\ Applies("get_server_time_params")
    /\ probe' = [probe EXCEPT !.done = TRUE,
                   !.result = ServerTimeParams(probe.arg.time, probe.arg.digest)]
    /\ Idle

ApplyFormatMs ==
    /\ Applies("format_ms")
    /\ probe' = [probe EXCEPT !.done = TRUE, !.result = format_ms(probe.arg)]
    /\ Idle

NextPure ==
    \/ ApplyExtractTrackId
    \/ ApplyGenerateTotp
    \/ ApplyServerTimeParams
    \/ ApplyFormatMs

SpecPure == InitPure /\ [][NextPure]_vars

\* ------------------------------------------------------------- properties
InGetLyrics == {"check", "wait_time", "wait_token", "wait_lyrics"}

\* The handler future of r runs one of its steps.
Resumes(r) == pc[r] \in InGetLyrics /\ pc'[r] # pc[r]

Success2xx(rep) == rep.kind = "http" /\ IsSuccess(rep.status)

\* A token-exchange answer get_token accepts: success status, JSON body, not
\* anonymous.
AcceptedTokenReply(rep) == Success2xx(rep) /\ rep.body = "json" /\ ~rep.isAnonymous

\* C1: one call of get_lyrics sends at most 2 requests to the lyrics endpoint.
C1_AtMostTwoLyricsCalls == \A r \in Requests : calls[r].lyrics <= 2

C1_Witness == \E r \in Requests : calls[r].lyrics = 2 /\ pc[r] = "wait_lyrics"

\* C2: after a 401 on attempt 1 the cached record is gone when attempt 2
\* starts, and attempt 2 sends its lyrics request only after a token
\* acquisition of its own (server-time call and token exchange).
C2_RefreshAfter401 ==
    \A r \in Requests :
        /\ (got401[r] /\ pc[r] = "check") => cache.kind = "absent"
        /\ (got401[r] /\ pc[r] = "wait_lyrics") => acq[r].done

\* C3: when attempt 1 got 401 and attempt 2 gets a 2xx response, the cache file
\* holds exactly what the acquisition of attempt 2 returned.
C3_CacheIsSecondToken ==
    \A r \in Requests :
        (got401[r] /\ pc[r] = "wait_lyrics" /\ Success2xx(reply[r]))
            => /\ acq[r].done
               /\ cache = CacheData(acq[r].access_token, acq[r].client_id, acq[r].exp)

\* check_tokens_expire went on with the cached token and made no upstream call.
TreatedFresh(r) ==
    /\ pc[r] = "check"
    /\ pc'[r] = "wait_lyrics"
    /\ calls'[r].time = calls[r].time
    /\ calls'[r].token = calls[r].token

\* check_tokens_expire called get_token (which sends the server-time request).
TriggersGetToken(r) == pc[r] = "check" /\ pc'[r] = "wait_time"

\* C4 as stated: the record is treated as fresh, with no upstream call, iff it
\* has a token and an expiry strictly greater than the current time; a record
\* whose expiry is at or before the current time, or that lacks a field,
\* triggers get_token.
C4_FreshIffStrictlyLater ==
    [][\A r \in Requests : Resumes(r) /\ pc[r] = "check" =>
          /\ TreatedFresh(r) <=> (/\ cache.kind = "ok"
                                  /\ cache.access_token # NoToken
                                  /\ cache.exp # NoExp
                                  /\ cache.exp > now)
          /\ (cache.kind = "ok" /\ (cache.access_token = NoToken \/ cache.exp <= now))
                => TriggersGetToken(r)]_vars

\* C4 amended: the record is treated as fresh, with no upstream call, iff it
\* has a token and an expiry not earlier than the current time; a record whose
\* expiry precedes the current time, or that lacks the token or the expiry,
\* and a missing cache file, trigger get_token.
C4_FreshIffNotEarlier ==
    [][\A r \in Requests : Resumes(r) /\ pc[r] = "check" =>
          /\ TreatedFresh(r) <=> (/\ cache.kind = "ok"
                                  /\ cache.access_token # NoToken
                                  /\ cache.exp # NoExp
                                  /\ cache.exp >= now)
          /\ (\/ cache.kind = "absent"
              \/ /\ cache.kind = "ok"
                 /\ (cache.access_token = NoToken \/ cache.exp = NoExp \/ cache.exp < now))
                => TriggersGetToken(r)]_vars

\* A request went on with a cached record that expires at the current instant.
C4_Witness ==
    \E r \in Requests :
        /\ pc[r] = "wait_lyrics"
        /\ calls[r] = [time |-> 0, token |-> 0, lyrics |-> 1]
        /\ cache.kind = "ok"
        /\ cache.exp = now

\* C5: whenever the cached record is not usable, an unparsable cache file
\* included, the freshness guard invokes token acquisition.
C5_UnusableTriggersAcquisition ==
    [][\A r \in Requests :
          (/\ Resumes(r) /\ pc[r] = "check"
           /\ ~(/\ cache.kind = "ok"
                /\ cache.access_token # NoToken
                /\ cache.exp # NoExp
                /\ cache.exp >= now))
            => TriggersGetToken(r)]_vars

\* C6: the cached record is either absent or holds both a token and an expiry.
C6_RecordComplete ==
    cache.kind = "ok" => (cache.access_token # NoToken /\ cache.exp # NoExp)

C8_IncompleteTokenRejected ==
    [][\A r \in Requests :
          (/\ Resumes(r) /\ pc[r] = "wait_token"
           /\ AcceptedTokenReply(reply[r])
           /\ (reply[r].accessToken = NoToken \/ reply[r].exp = NoExp))
            => /\ cache' = cache
               /\ pc'[r] = "done"
               /\ err'[r] # NoErr]_vars

\* The upstream answer the resumed step consumes ends the call with an error:
\* a transport failure, a non-2xx status other than the 401 of attempt 1, or a
\* server-time or token answer the acquisition rejects.
FailingReply(r) ==
    \/ reply[r].kind = "transport"
    \/ /\ reply[r].kind = "http" /\ ~IsSuccess(reply[r].status)
       /\ ~(pc[r] = "wait_lyrics" /\ attempt[r] = 1 /\ reply[r].status = Unauthorized)
    \/ /\ pc[r] = "wait_time"
       /\ (reply[r].body # "json" \/ reply[r].serverTime = NoTime)
    \/ /\ pc[r] = "wait_token"
       /\ ~AcceptedTokenReply(reply[r])

\* C9: a second attempt starts only on a 401 answer to the lyrics request of
\* attempt 1; every other failure ends the call at once with an error that
\* carries the HTTP status when a status caused it.
C9_RetryOnlyOn401 ==
    [][\A r \in Requests :
          /\ (attempt[r] >= 1 /\ attempt'[r] > attempt[r])
                => /\ attempt[r] = 1
                   /\ pc[r] = "wait_lyrics"
                   /\ reply[r].kind = "http" /\ reply[r].status = Unauthorized
          /\ (Resumes(r) /\ pc[r] # "check" /\ FailingReply(r))
                => /\ pc'[r] = "done"
                   /\ resp'[r] = 500
                   /\ err'[r] # NoErr
                   /\ (reply[r].kind = "http" /\ ~IsSuccess(reply[r].status))
                         => /\ err'[r].kind = "ApiError"
                            /\ err'[r].status = reply[r].status]_vars

\* A call ended on the 401 that answered its second attempt.
C9_Witness ==
    \E r \in Requests :
        /\ pc[r] = "done"
        /\ resp[r] = 500
        /\ err[r] = ApiError("Lyrics request failed", Unauthorized)

\* C10: at most one request at a time is between taking the mutex and the
\* return of the handler, where the cache is read, written or removed and
\* tokens are acquired; that request is the holder of the mutex.
C10_MutualExclusion ==
    /\ Cardinality({r \in Requests : pc[r] \in InGetLyrics}) <= 1
    /\ \A r \in Requests : pc[r] \in InGetLyrics => lock = r

\* One request waits for the mutex while another is in a token acquisition.
C10_Witness ==
    \E r1, r2 \in Requests :
        /\ pc[r1] = "wait_token"
        /\ pc[r2] = "blocked"

\* A token-exchange answer with a success status and a JSON body whose
\* isAnonymous is true.
AnonymousReply(rep) == Success2xx(rep) /\ rep.body = "json" /\ rep.isAnonymous

\* The response of the handler's catch-all arm: an internal failure.
GenericFailure(r) == resp[r] = 500 /\ out[r].message = "Failed to fetch lyrics"

GetTokenOk(r) ==
    /\ Resumes(r) /\ pc[r] = "wait_token"
    /\ \/ pc'[r] = "wait_lyrics"
       \/ pc'[r] = "done" /\ err'[r] = Generic("Access token not found")

\* The client id of the record before the acquisition: none for a missing file.
PriorClientId == IF cache.kind = "ok" THEN cache.client_id ELSE NoClient

RemoveFailed(r) ==
    /\ pc[r] = "wait_lyrics" /\ attempt'[r] = attempt[r] + 1
    /\ cache.kind # "absent" /\ cache' = cache

\* The resumed step meets an Err: the cache file does not parse, the upstream
\* answer is a failure, the lyrics text cannot be formatted.
ErrorRaised(r) ==
    \/ pc[r] \in {"check", "wait_token"} /\ LoadFails(cache)
    \/ pc[r] # "check" /\ FailingReply(r)
    \/ pc[r] = "wait_lyrics" /\ Success2xx(reply[r]) /\ FormatError(reply[r]) # NoErr

\* C13: every error raised while the cache is loaded or cleared, a token is
\* acquired, the lyrics are fetched or formatted ends the request with an
\* error response; none is swallowed.
C13_NoErrorSwallowed ==
    [][\A r \in Requests :
         Resumes(r) /\ (ErrorRaised(r) \/ RemoveFailed(r))
         => /\ pc'[r] = "done"
            /\ err'[r] # NoErr
            /\ resp'[r] \in {404, 500}]_vars

\* Segments of a text, told from the positions of its separators: segment k
\* (from 0) lies between separator k and separator k + 1, the ends of the
\* text standing for separator 0 and for the one after the last.
CountSep(s, sep) == Cardinality({i \in 1..Len(s) : s[i] = sep})
NthSep(s, sep, k) ==
    IF k = 0 THEN 0
    ELSE IF k > CountSep(s, sep) THEN Len(s) + 1
    ELSE CHOOSE i \in 1..Len(s) :
            s[i] = sep /\ Cardinality({j \in 1..i : s[j] = sep}) = k
Segment(s, sep, k) == SubSeq(s, NthSep(s, sep, k) + 1, NthSep(s, sep, k + 1) - 1)

\* The identifier of a url of the shape .../track/<id>[?...]: segment 4 up
\* to its first '?'.
IdOf(u) == Segment(Segment(u, "/", 4), "?", 0)

\* The url has the shape .../track/<id>[?...]: a segment 4, segment 3 is
\* "track", and an identifier after it.
TrackShape(u) ==
    /\ CountSep(u, "/") >= 4
    /\ Segment(u, "/", 3) = <<"track">>
    /\ IdOf(u) # <<>>

\* The handler's track-identifier check fails: neither trackid nor url, or a
\* url for which extract_track_id returns None.
TrackIdCheckFails(q) == ~q.trackid /\ (~q.hasUrl \/ extract_track_id(q.url) = None)

\* The query names no track: neither trackid nor url, or a url that has not
\* the shape .../track/<id>[?...].
NoTrackId(q) == ~q.trackid /\ (~q.hasUrl \/ ~TrackShape(q.url))

\* The format parameter is present and neither id3 nor lrc.
BadFormat(q) == q.format \notin {"none", "id3", "lrc"}

\* The lyrics answer is a success with a JSON body; with the lyrics key the
\* lyrics are fetched and formatted, without it the upstream reports that
\* the track has none.
LyricsJson(r) == pc[r] = "wait_lyrics" /\ Success2xx(reply[r]) /\ reply[r].body = "json"

\* C14: the endpoint answers 400 exactly to malformed input, and once the
\* input is accepted 200 only when lyrics were fetched and formatted, 404
\* when the upstream reports that the track has no lyrics, 500 for every
\* other failure.
C14_StatusMapping ==
    [][\A r \in Requests :
         /\ (pc[r] \in {"idle", "blocked"} /\ pc'[r] = "check")
               => ~NoTrackId(input'[r]) /\ ~BadFormat(input'[r])
         /\ (pc[r] \in {"idle", "blocked"} /\ pc'[r] = "done")
               => /\ resp'[r] = 400
                  /\ (NoTrackId(input'[r]) \/ BadFormat(input'[r]))
         /\ (pc[r] \in InGetLyrics /\ pc'[r] = "done")
               => resp'[r] = IF LyricsJson(r) /\ reply[r].lyrics THEN 200
                             ELSE IF LyricsJson(r) THEN 404
                             ELSE 500]_vars

\* A parameter check answered request r with 400: the query is still in hand.
Rejected(r) == pc[r] = "done" /\ input[r] # NoQuery

\* The handler of r has accepted the query and is about to fetch the lyrics.
Accepted(r) == pc[r] = "check" /\ input[r] # NoQuery

\* C15 as stated: every request whose format is present and neither id3 nor
\* lrc is answered 400 with the format message, and an absent format is
\* treated as id3.
C15_BadFormatAlwaysFormatMessage ==
    \A r \in Requests :
        /\ Accepted(r) => ~BadFormat(input[r])
        /\ Rejected(r) /\ BadFormat(input[r])
              => /\ resp[r] = 400
                 /\ out[r].message = "format parameter must be either 'id3' or 'lrc'!"
        /\ Accepted(r) /\ input[r].format = "none" => format[r] = "id3"

\* C15: every request whose format is present and neither id3 nor lrc is
\* answered 400; the message is the format message when the track-identifier
\* check passes (trackid, or a url extract_track_id accepts), and the message
\* of that check otherwise, as it comes first.  An absent format is treated
\* as id3.
C15_BadFormatAfterTrackId ==
    \A r \in Requests :
        /\ Accepted(r) => ~BadFormat(input[r])
        /\ Rejected(r) /\ BadFormat(input[r])
              => /\ resp[r] = 400
                 /\ out[r].message =
                       IF ~TrackIdCheckFails(input[r])
                       THEN "format parameter must be either 'id3' or 'lrc'!"
                       ELSE IF input[r].hasUrl THEN "invalid url parameter!"
                       ELSE "url or trackid parameter is required!"
        /\ Accepted(r) /\ input[r].format = "none" => format[r] = "id3"

\* A request that passes the track-identifier check was refused for its format.
C15_Witness ==
    \E r \in Requests :
        /\ Rejected(r) /\ BadFormat(input[r]) /\ ~TrackIdCheckFails(input[r])
        /\ resp[r] = 400

\* The function f has been applied to the input in hand.
Applied(f) == probe.fn = f /\ probe.done

\* C16: extract_track_id returns the identifier (segment 4 cut at the first
\* '?') exactly for urls of the shape .../track/<id>[?...], and none for every
\* other shape: fewer segments, another segment 3, no identifier after track/.
C16_IdExactlyForTrackShape ==
    Applied("extract_track_id")
    => probe.result = IF TrackShape(probe.arg) THEN Some(IdOf(probe.arg)) ELSE None

\* The number a decimal text denotes.
DigitValue(ch) == CHOOSE d \in 0..9 : DigitChars[d + 1] = ch
RECURSIVE DecimalValue(_)
DecimalValue(text) ==
    IF text = <<>> THEN 0
    ELSE DecimalValue(SubSeq(text, 1, Len(text) - 1)) * 10 + DigitValue(text[Len(text)])

IsDecimal(text) == \A i \in 1..Len(text) : \E d \in 0..9 : DigitChars[d + 1] = text[i]

\* The low 31 bits of the big-endian 32-bit word at index o of the digest:
\* the low 23 bits of its first three bytes, followed by its fourth byte.
Low31(digest, o) ==
    ((digest[o] * 65536 + digest[o + 1] * 256 + digest[o + 2]) % 8388608) * 256
    + digest[o + 3]

\* C17: for any server time and any 20-byte digest generate_totp reads only
\* bytes of the digest (the offset, the low nibble of the last byte, plus 3
\* stays below 20) and returns exactly 6 decimal digits, whose value is the
\* 31-bit truncated value modulo 1,000,000 (padded with zeros on the left).
C17_TotpSixDigits ==
    Applied("generate_totp")
    => /\ probe.result.reads \subseteq 0..19
       /\ (probe.arg.digest[19] % 16) + 3 \in probe.result.reads
       /\ (probe.arg.digest[19] % 16) + 3 <= 19
       /\ Len(probe.result.code) = 6
       /\ IsDecimal(probe.result.code)
       /\ DecimalValue(probe.result.code)
             = Low31(probe.arg.digest, probe.arg.digest[19] % 16) % 1000000

\* The largest offset, a word with its top bit set, and a code that needs
\* padding.
C17_Witness ==
    /\ Applied("generate_totp")
    /\ probe.arg.digest[19] % 16 = 15
    /\ probe.arg.digest[15] >= 128
    /\ probe.result.code[1] = "0"

\* The decimal text of a number as to_string writes it: digits only, no zero
\* in front of another digit.
IsDecimalTextOf(text, n) ==
    /\ Len(text) >= 1 /\ IsDecimal(text)
    /\ Len(text) > 1 => text[1] # "0"
    /\ DecimalValue(text) = n

\* C18: for a server time s the parameters carry sTime = the decimal text of
\* s, cTime = that text followed by "420" (the number s * 1000 + 420, not
\* s + 420, which differs from it for every s but 0), and totp and totpServer
\* both equal to the one code derived for s.
C18_TimeParams ==
    Applied("get_server_time_params")
    => /\ IsDecimalTextOf(probe.result.sTime, probe.arg.time)
       /\ probe.result.cTime = probe.result.sTime \o <<"4", "2", "0">>
       /\ DecimalValue(probe.result.cTime) = probe.arg.time * 1000 + 420
       /\ probe.arg.time > 0
             => DecimalValue(probe.result.cTime) # probe.arg.time + 420
       /\ probe.result.totp = probe.result.totpServer
       /\ Len(probe.result.totp) = 6
       /\ DecimalValue(probe.result.totp)
             = Low31(probe.arg.digest, probe.arg.digest[19] % 16) % 1000000

\* Parameters built for a server time of several digits.
C18_Witness ==
    /\ Applied("get_server_time_params")
    /\ probe.arg.time >= 100
    /\ Len(probe.result.cTime) = Len(probe.result.sTime) + 3
    /\ probe.result.totp # <<"0", "0", "0", "0", "0", "0">>

\* The three fields of a time tag <minutes>:<ss>.<cc>, told from its end.
TagMinutes(t) == SubSeq(t, 1, Len(t) - 6)
TagSeconds(t) == SubSeq(t, Len(t) - 4, Len(t) - 3)
TagCentis(t)  == SubSeq(t, Len(t) - 1, Len(t))

\* C19: format_ms(ms) writes minutes = ms div 60000, seconds = (ms div 1000)
\* mod 60 and centiseconds = (ms mod 1000) div 10, each padded with zeros to
\* two digits, as <minutes>:<seconds>.<centiseconds>; seconds < 60,
\* centiseconds < 100, and minutes * 60000 + seconds * 1000 + centiseconds *
\* 10 is at most 9 ms below ms and never above it.
C19_FormatMs ==
    Applied("format_ms")
    => LET t == probe.result
           ms == probe.arg
           back == DecimalValue(TagMinutes(t)) * 60000
                   + DecimalValue(TagSeconds(t)) * 1000
                   + DecimalValue(TagCentis(t)) * 10
       IN  /\ Len(t) >= 8
           /\ t[Len(t) - 5] = ":" /\ t[Len(t) - 2] = "."
           /\ IsDecimal(TagMinutes(t)) /\ IsDecimal(TagSeconds(t)) /\ IsDecimal(TagCentis(t))
           /\ Len(TagMinutes(t)) > 2 => TagMinutes(t)[1] # "0"
           /\ DecimalValue(TagMinutes(t)) = ms \div 60000
           /\ DecimalValue(TagSeconds(t)) = (ms \div 1000) % 60
           /\ DecimalValue(TagCentis(t)) = (ms % 1000) \div 10
           /\ DecimalValue(TagSeconds(t)) < 60
           /\ DecimalValue(TagCentis(t)) < 100
           /\ back <= ms /\ ms - back <= 9

\* format_ms(65250) = "01:05.25"
C19_Witness ==
    /\ Applied("format_ms")
    /\ probe.arg = 65250
    /\ probe.result = <<"0", "1", ":", "0", "5", ".", "2", "5">>

\* A server-time answer get_server_time_params accepts: success status, JSON
\* body, serverTime an unsigned integer.
GoodTimeReply(rep) == Success2xx(rep) /\ rep.body = "json" /\ rep.serverTime # NoTime

\* The cache file is written in this step (a removal leaves no file).
CacheWritten == cache' # cache /\ cache'.kind # "absent"

SendsLyrics(r) == calls'[r].lyrics > calls[r].lyrics

\* C21: every lyrics request carries the token that is in the cache when it
\* is sent, and the recorded expiry of that token is later than the time the
\* attempt's freshness check read, also when the token was acquired during
\* the attempt.
C21_SentTokenFresh ==
    [][\A r \in Requests :
         SendsLyrics(r)
         => /\ cache'.kind = "ok"
            /\ token'[r] = cache'.access_token
            /\ cache'.exp # NoExp
            /\ cache'.exp > checked'[r]]_vars

\* The cache file is removed in this step.
CacheCleared == cache.kind # "absent" /\ cache'.kind = "absent"

\* The record c holds a token the freshness check run at time t accepts.
FreshAt(c, t) ==
    c.kind = "ok" /\ c.access_token # NoToken /\ c.exp # NoExp /\ c.exp >= t

\* C22: with concurrent requests the cache is cleared only of the token the
\* clearing request itself just had rejected with 401; and a token in the
\* cache (written by an earlier request) that is still fresh is used by the
\* next request as it is, no request sending a token exchange while the
\* cache holds a token that was fresh at its check.
C22_NoLostTokenNoDuplicateExchange ==
    [][/\ CacheCleared
             => \E r \in Requests :
                   /\ Resumes(r) /\ pc[r] = "wait_lyrics" /\ attempt[r] = 1
                   /\ reply[r].kind = "http" /\ reply[r].status = Unauthorized
                   /\ token[r] = cache.access_token
       /\ \A r \in Requests :
             /\ calls'[r].token > calls[r].token => ~FreshAt(cache, checked[r])
             /\ Resumes(r) /\ pc[r] = "check" /\ FreshAt(cache, now)
                   => /\ SendsLyrics(r)
                      /\ token'[r] = cache.access_token
                      /\ calls'[r].time = calls[r].time
                      /\ calls'[r].token = calls[r].token]_vars

\* A request that had its token rejected has cleared the cache and written a
\* new token while another request waits for the lock.
C22_Witness ==
    \E r \in Requests, r2 \in Requests :
        /\ r # r2 /\ pc[r2] = "blocked"
        /\ pc[r] = "wait_lyrics" /\ got401[r] /\ acq[r].done
        /\ cache.access_token = token[r]

\* The handler of r has been entered and has not answered yet.
Pending(r) == pc[r] = "blocked" \/ pc[r] \in InGetLyrics

\* C23: under any interleaving of concurrent requests, also two requests on
\* the same worker thread while the first waits for upstream with the lock
\* held, every request is eventually answered and the lock is eventually
\* released, provided upstream answers every call.
C23_EveryRequestAnswered ==
    /\ \A r \in Requests : Pending(r) ~> (pc[r] = "done")
    /\ (lock # 0) ~> (lock = 0)

\* Upstream calls the current get_lyrics call of r has sent, all endpoints.
UpstreamCalls(r) == calls[r].time + calls[r].token + calls[r].lyrics

\* C24: one call of get_lyrics acquires a token at most once per attempt
\* (never more server-time calls than attempts begun, never more token
\* exchanges than server-time calls), so it sends at most 2 server-time
\* calls, at most 2 token exchanges and at most 6 upstream calls in all,
\* whatever upstream answers and whatever the cache holds.
C24_AcquisitionsBounded ==
    \A r \in Requests :
        /\ pc[r] \in InGetLyrics
              => /\ calls[r].time <= attempt[r]
                 /\ calls[r].token <= calls[r].time
                 /\ calls[r].lyrics <= attempt[r]
        /\ calls[r].time <= MaxAttempts
        /\ calls[r].token <= MaxAttempts
        /\ UpstreamCalls(r) <= 3 * MaxAttempts

\* Both attempts acquired a token and sent a lyrics request: 6 calls.
C24_Witness ==
    \E r \in Requests :
        /\ pc[r] = "wait_lyrics" /\ attempt[r] = MaxAttempts
        /\ calls[r] = [time |-> 2, token |-> 2, lyrics |-> 2]
        /\ UpstreamCalls(r) = 6

====
